---- MODULE Spec2Model ----
(***************************************************************************)
(* Na Ponimanii: the FastAPI server (src/src/server/app.py), its SQLite    *)
(* store (src/src/server/database.py) and the Telegram front end's         *)
(* get-topic flow (src/src/bot/telegram_bot.py).                           *)
(*                                                                         *)
(* The server is one uvicorn process with one event loop.  Every endpoint  *)
(* is an "async def" whose body, after "await request.json()", contains no *)
(* await: store calls, LLM calls and time.sleep are blocking calls, so a   *)
(* handler body runs without interleaving.  A background task scheduled by *)
(* BackgroundTasks.add_task runs on the same loop after the response has   *)
(* been sent; it is an "async def" without awaits, so it is one step too.  *)
(*                                                                         *)
(* app.py calls generate_explanation(title, parent, mode) and              *)
(* generate_related_topics(title, explanation); llm_service.py in the tree *)
(* still declares both with one parameter.  The model takes the outcome of *)
(* each call from the function bodies: explain yields a text or raises,    *)
(* related yields a list and never raises.  The outcome an argument        *)
(* mismatch would give (an exception, caught by the caller) is among them. *)
(*                                                                         *)
(* Nullable values are options: None is <<>>, a present value v is <<v>>.  *)
(* Strings that the code trims or tests for emptiness are sequences of     *)
(* characters.                                                             *)
(***************************************************************************)
EXTENDS Integers, Sequences, FiniteSets, TLC

\* ---------------------------------------------------------------- bounds
MaxTopics == 2      \* topics created over the whole run
MaxUser == 2        \* user ids 1..MaxUser
MaxToggles == 5     \* change_mode requests counted per user
MaxText == 5        \* characters of a text given to parse_topics_from_text
MaxButtons == 2     \* ids the related-topic counter hands out between two cleanups
MaxRendered == 3    \* buttons rendered in the chats

UserIds == 1..MaxUser
Keys == 1..MaxTopics

\* ---------------------------------------------------------------- values
None == <<>>
Some(v) == <<v>>
Val(o) == o[1]

\* Titles a request can carry: " " (empty once trimmed) and " a"
Titles == {<<" ">>, <<" ", "a">>}
\* parent_topic_title values a request can carry
ParentTitles == {}

\* Whitespace characters of the modelled alphabet
Whitespace == {" ", "\n"}

\* str.strip(): leading and trailing whitespace removed
RECURSIVE LStrip(_)
LStrip(s) == IF s # <<>> /\ Head(s) \in Whitespace THEN LStrip(Tail(s)) ELSE s

RECURSIVE RStrip(_)
RStrip(s) ==
    IF s # <<>> /\ s[Len(s)] \in Whitespace THEN RStrip(SubSeq(s, 1, Len(s) - 1)) ELSE s

Strip(s) == RStrip(LStrip(s))

\* ---------------------------------------------------------------- parse_topics_from_text
\* Characters of the texts parsed: a letter, a space, a digit, the dot (marker
\* and punctuation), the comma and the newline
Chars == {"a", " ", "1", ".", ",", "\n"}
Texts == UNION {[1..n -> Chars] : n \in 0..MaxText}

\* The class [\d\-\*\u2022\.\s] of the leading-marker pattern
Digits == {"0", "1", "2", "3", "4", "5", "6", "7", "8", "9"}
\* ("bullet" stands for the character U+2022)
MarkerChars == Digits \cup {"-", "*", "bullet", "."} \cup Whitespace
\* The class [,\.;:] of the trailing-punctuation pattern
TrailingPunctuation == {",", ".", ";", ":"}

\* str.split('\n')
RECURSIVE Split(_)
Split(s) ==
    IF \A i \in DOMAIN s : s[i] # "\n"
    THEN <<s>>
    ELSE LET i == CHOOSE k \in DOMAIN s :
                     s[k] = "\n" /\ \A m \in 1..(k - 1) : s[m] # "\n"
         IN <<SubSeq(s, 1, i - 1)>> \o Split(SubSeq(s, i + 1, Len(s)))

\* re.sub of the leading-marker pattern (anchored, greedy) by ''
RECURSIVE StripMarker(_)
StripMarker(line) ==
    IF line # <<>> /\ Head(line) \in MarkerChars THEN StripMarker(Tail(line)) ELSE line

\* re.sub of the trailing-punctuation pattern (one character before the end) by ''
StripPunctuation(line) ==
    IF line # <<>> /\ line[Len(line)] \in TrailingPunctuation
    THEN SubSeq(line, 1, Len(line) - 1)
    ELSE line

\* A loop that appends every line, empty or not
KeepLine_always(line) == TRUE

\* "if line:"
KeepLine(line) == line # <<>>

\* "for line in lines": clean the line and append it when it is not empty
RECURSIVE CleanLines(_)
CleanLines(lines) ==
    IF lines = <<>>
    THEN <<>>
    ELSE LET line == StripPunctuation(StripMarker(Strip(Head(lines))))
         IN (IF KeepLine(line) THEN <<line>> ELSE <<>>) \o CleanLines(Tail(lines))

parse_topics_from_text(text) == CleanLines(Split(Strip(text)))

\* Texts the LLM can answer to an explanation request (response.content)
ExplainTexts == {"", "E1"}
\* Lists the related-topics call can yield ([] on any failure)
RelatedLists == {<<>>, <<"R1">>}

\* What happens inside generate_related_topics: get_llm_client or llm.invoke
\* raises (timeout, HTTP status error, missing API key, anything else), or
\* llm.invoke answers with something that is not an AIMessage, or with content
LlmFailures == {"TimeoutException", "HTTPStatusError", "LLMServiceException", "Exception"}
RelatedOutcomes == LlmFailures \cup {"not AIMessage", "R1"}

\* A generate_related_topics that lets the failure of the LLM call through
generate_related_topics_raising(outcome) ==
    [raised |-> outcome \in LlmFailures,
     value |-> IF outcome = "R1" THEN <<outcome>> ELSE <<>>]

\* generate_related_topics: every except clause returns [], and so does the
\* branch for an unexpected response type; content is parsed into a list
generate_related_topics(outcome) ==
    [raised |-> FALSE,
     value |-> IF outcome \in LlmFailures \/ outcome = "not AIMessage"
               THEN <<>> ELSE <<outcome>>]

\* Python truthiness of an optional string: None and "" are falsy
Truthy(o) == o # None /\ Val(o) # ""

\* json.dumps of a list of strings / json.loads of that text
json_dumps(list) == <<"[">> \o list \o <<"]">>
json_loads(text) == SubSeq(text, 2, Len(text) - 1)

VARIABLES
    topics,     \* rows of table "topics"
    users,      \* table "users": user_id -> mode, or NoRow
    bg,         \* background tasks scheduled and not yet run
    loop,       \* the event loop: Idle, or the random_topic handler inside time.sleep
    resp,       \* the last HTTP exchange: request data and response
    bot,        \* the front end's get_topic_command: position and what it rendered
    nextKey,    \* history: number of rows ever inserted, plus one
    served,     \* history: times each inserted row was returned by /bot/random_topic
    taskLog,    \* history: outcome of each generation task that has run
    explainLog, \* history: arguments of each task's generate_explanation call
    toggles,    \* history: change_mode requests completed per user, counted step by step
    front       \* the front end's module globals and the buttons it has rendered

vars == <<topics, users, bg, loop, resp, bot, front, nextKey, served, taskLog, explainLog, toggles>>

NoRow == "no row"
Modes == {"long", "short"}
Idle == [handler |-> "idle"]

\* A JSON request body: each field is absent (None) or present
NoData == [user_id |-> None, topic_title |-> None, parent_topic_title |-> None,
           topic_id |-> None]
Has(data, f) == data[f] # None

NoResp == [endpoint |-> "none", data |-> NoData, status |-> 0,
           body |-> [kind |-> "none"], trace |-> <<>>]
BotIdle == [pc |-> "idle", user_id |-> 0, key |-> 0, topic_id |-> 0,
            explanation |-> None, message |-> "none"]

\* ---------------------------------------------------------------- store
Ids(rows) == {r.id : r \in rows}

Max(S) == CHOOSE x \in S : \A y \in S : y <= x

\* SQLite INTEGER PRIMARY KEY without AUTOINCREMENT: the new rowid is one more
\* than the largest rowid currently in the table
NewId(rows) == IF rows = {} THEN 1 ELSE Max(Ids(rows)) + 1

\* The row add_topic inserts; key is the history number of the insertion
NewRow(rows, user_id, title, parent, key) ==
    [id |-> NewId(rows), user_id |-> user_id, title |-> title,
     explanation |-> None, related_topics |-> None,
     parent_topic_title |-> parent, key |-> key]

\* add_topic storing the trimmed title instead of the title it was given
add_topic_trimmed(rows, user_id, title, parent, key) ==
    rows \cup {NewRow(rows, user_id, Strip(title), parent, key)}

\* add_topic under a uniqueness constraint on (user_id, title): the second
\* insert of a title is dropped
add_topic_unique_title(rows, user_id, title, parent, key) ==
    IF \E r \in rows : r.user_id = user_id /\ r.title = title
    THEN rows
    ELSE rows \cup {NewRow(rows, user_id, title, parent, key)}

add_topic(rows, user_id, title, parent, key) ==
    rows \cup {NewRow(rows, user_id, title, parent, key)}

\* db.query(Topic).filter(Topic.id == topic_id).first()
get_topic(rows, topic_id) ==
    IF topic_id \in Ids(rows)
    THEN Some(CHOOSE r \in rows : r.id = topic_id)
    ELSE None

\* Rows of a user in rowid order
RECURSIVE SortById(_)
SortById(rows) ==
    IF rows = {} THEN <<>>
    ELSE LET r == CHOOSE x \in rows : \A y \in rows : x.id <= y.id
         IN <<r>> \o SortById(rows \ {r})

UserRows(rows, user_id) == SortById({r \in rows : r.user_id = user_id})

\* Topic.to_dict
to_dict(r) ==
    [id |-> r.id, user_id |-> r.user_id, title |-> r.title,
     explanation |-> r.explanation,
     related_topics |-> IF r.related_topics # None
                        THEN json_loads(Val(r.related_topics)) ELSE <<>>,
     parent_topic_title |-> r.parent_topic_title]

list_topics(rows, user_id) ==
    LET s == UserRows(rows, user_id)
    IN [i \in 1..Len(s) |-> to_dict(s[i])]

\* get_random_topic_for_user, first query: the number of rows of the user
topic_count(rows, user_id) == Len(UserRows(rows, user_id))

\* get_random_topic_for_user, second query: .offset(random_offset).first()
offset_first(rows, user_id, random_offset) ==
    LET s == UserRows(rows, user_id)
    IN IF random_offset + 1 <= Len(s) THEN Some(s[random_offset + 1]) ELSE None

\* A pick that does not filter by user
RandomPicks_any_user(rows, user_id) ==
    LET s == SortById(rows)
    IN {s[offset + 1] : offset \in 0..(Len(s) - 1)}

\* A pick whose offset starts at 1: it skips the first row
RandomPicks_skip_first(rows, user_id) ==
    LET s == UserRows(rows, user_id)
    IN {s[offset + 1] : offset \in 1..(Len(s) - 1)}

\* get_random_topic_for_user: the rows random.randint(0, count - 1) can select
RandomPicks(rows, user_id) ==
    LET s == UserRows(rows, user_id)
    IN {s[offset + 1] : offset \in 0..(Len(s) - 1)}

\* A delete that removes nothing
delete_topic_noop(rows, topic_id) == rows

\* delete_topic: the table after the call
delete_topic(rows, topic_id) == {r \in rows : r.id # topic_id}

\* delete_topic: the boolean it returns
delete_topic_success(rows, topic_id) == get_topic(rows, topic_id) # None

\* update_topic_explanation writing the related topics and forgetting the explanation
update_topic_explanation_related_only(rows, topic_id, explanation, related) ==
    {IF r.id = topic_id
     THEN [r EXCEPT !.related_topics = Some(json_dumps(Val(related)))]
     ELSE r : r \in rows}

\* An update that stores an empty explanation as NULL
update_topic_explanation_blank_as_null(rows, topic_id, explanation, related) ==
    {IF r.id = topic_id
     THEN [r EXCEPT !.explanation = IF explanation = "" THEN None ELSE Some(explanation),
                    !.related_topics = IF related # None
                                       THEN Some(json_dumps(Val(related))) ELSE @]
     ELSE r : r \in rows}

\* An update without the filter on the id: it writes every row
update_topic_explanation_every_row(rows, topic_id, explanation, related) ==
    {[r EXCEPT !.explanation = Some(explanation),
               !.related_topics = IF related # None
                                  THEN Some(json_dumps(Val(related))) ELSE @] : r \in rows}

\* update_topic_explanation: the row with this id gets explanation and, when
\* related_topics is not None, the serialized related topics; without such a
\* row nothing changes.  related is None or Some(list)
update_topic_explanation(rows, topic_id, explanation, related) ==
    {IF r.id = topic_id
     THEN [r EXCEPT !.explanation = Some(explanation),
                    !.related_topics = IF related # None
                                       THEN Some(json_dumps(Val(related))) ELSE @]
     ELSE r : r \in rows}

\* get_mode: read-through default
get_mode(u, user_id) == IF u[user_id] = NoRow THEN "long" ELSE u[user_id]

\* An add_user that updates the row it finds and inserts none
add_user_update_only(u, user_id, mode) ==
    IF u[user_id] = NoRow THEN u ELSE [u EXCEPT ![user_id] = mode]

\* add_user(user_id, mode): insert the row, or overwrite the mode of the existing row
add_user(u, user_id, mode) == [u EXCEPT ![user_id] = mode]

\* A get_mode that inserts the default row for a user it does not find
after_get_mode_creating(u, user_id) ==
    IF u[user_id] = NoRow THEN add_user(u, user_id, "long") ELSE u

\* get_mode: the users table after the call (one query, no add, no commit)
after_get_mode(u, user_id) == u

\* A toggle that stores "short" whatever the current mode is
NewMode_short(current) == "short"

\* toggle_mode
NewMode(current) == IF current = "long" THEN "short" ELSE "long"
toggle_mode(u, user_id) ==
    add_user(after_get_mode(u, user_id), user_id, NewMode(get_mode(u, user_id)))

\* ---------------------------------------------------------------- HTTP
\* http_exception_handler: HTTPException(status_code, detail) becomes this response
HttpError(endpoint, data, status, detail, trace) ==
    [endpoint |-> endpoint, data |-> data, status |-> status,
     body |-> [kind |-> "error", error |-> detail], trace |-> trace]

HttpOk(endpoint, data, body, trace) ==
    [endpoint |-> endpoint, data |-> data, status |-> 200, body |-> body, trace |-> trace]

\* str(e) of an HTTPException raised inside a handler's try block
StrExc(detail) ==
    CASE detail = "user_id is required" -> "400: user_id is required"
      [] detail = "topic_title is required" -> "400: topic_title is required"
      [] detail = "topic_title cannot be empty" -> "400: topic_title cannot be empty"
      [] detail = "topic_id is required" -> "400: topic_id is required"
      [] OTHER -> "404: Topic not found or could not be deleted"

\* "except Exception as e: raise HTTPException(status_code=500, detail=str(e))"
\* of change_mode, bot_add_topic, bot_list_topics and bot_delete_topic: it also
\* catches the HTTPException the try block raised itself
Caught(endpoint, data, detail, trace) ==
    HttpError(endpoint, data, 500, StrExc(detail), trace)

ServedCap == 2
Bump(n) == IF n < ServedCap THEN n + 1 ELSE n

\* POST /change_mode
change_mode(data) ==
    /\ loop = Idle
    /\ IF ~Has(data, "user_id")
       THEN /\ resp' = Caught("change_mode", data, "user_id is required", <<>>)
            /\ users' = users
       ELSE LET user_id == Val(data.user_id)
                new_mode == NewMode(get_mode(users, user_id))
            IN /\ users' = toggle_mode(users, user_id)
               /\ resp' = HttpOk("change_mode", data,
                                 [kind |-> "mode", user_id |-> user_id, mode |-> new_mode],
                                 <<"get_mode", "add_user">>)
    /\ UNCHANGED <<topics, bg, loop, nextKey, served, taskLog, explainLog, toggles>>

\* The task bot_add_topic hands to BackgroundTasks.add_task
Task(row) ==
    [topic_id |-> row.id, topic_title |-> row.title,
     parent_topic_title |-> row.parent_topic_title, user_id |-> row.user_id,
     key |-> row.key]

AddedBody(row) ==
    [kind |-> "added", id |-> row.id, user_id |-> row.user_id, title |-> row.title,
     explanation |-> None, parent_topic_title |-> row.parent_topic_title]

\* POST /bot/add_topic
bot_add_topic(data) ==
    /\ loop = Idle
    /\ IF ~Has(data, "user_id")
       THEN /\ resp' = Caught("add_topic", data, "user_id is required", <<>>)
            /\ UNCHANGED <<topics, users, bg, nextKey>>
       ELSE IF ~Has(data, "topic_title")
       THEN /\ resp' = Caught("add_topic", data, "topic_title is required", <<>>)
            /\ UNCHANGED <<topics, users, bg, nextKey>>
       ELSE LET user_id == Val(data.user_id)
                topic_title == Val(data.topic_title)
                row == NewRow(topics, user_id, topic_title, data.parent_topic_title, nextKey)
            IN /\ users' = add_user(users, user_id, "long")
               /\ IF Strip(topic_title) = <<>>
                  THEN /\ resp' = Caught("add_topic", data, "topic_title cannot be empty",
                                         <<"add_user">>)
                       /\ UNCHANGED <<topics, bg, nextKey>>
                  ELSE /\ nextKey <= MaxTopics
                       /\ topics' = add_topic(topics, user_id, topic_title,
                                              data.parent_topic_title, nextKey)
                       /\ bg' = bg \cup {Task(row)}
                       /\ nextKey' = nextKey + 1
                       /\ resp' = HttpOk("add_topic", data, AddedBody(row),
                                         <<"add_user", "add_topic", "add_task">>)
    /\ UNCHANGED <<loop, served, taskLog, explainLog, toggles>>

\* POST /bot/list_topics
bot_list_topics(data) ==
    /\ loop = Idle
    /\ IF ~Has(data, "user_id")
       THEN /\ resp' = Caught("list_topics", data, "user_id is required", <<>>)
            /\ users' = users
       ELSE LET user_id == Val(data.user_id)
            IN /\ users' = add_user(users, user_id, "long")
               /\ resp' = HttpOk("list_topics", data,
                                 [kind |-> "topics", topics |-> list_topics(topics, user_id)],
                                 <<"add_user", "list_topics">>)
    /\ UNCHANGED <<topics, bg, loop, nextKey, served, taskLog, explainLog, toggles>>

\* POST /bot/delete_topic
bot_delete_topic(data) ==
    /\ loop = Idle
    /\ IF ~Has(data, "topic_id")
       THEN /\ resp' = Caught("delete_topic", data, "topic_id is required", <<>>)
            /\ topics' = topics
       ELSE LET topic_id == Val(data.topic_id)
            IN IF ~delete_topic_success(topics, topic_id)
               THEN /\ resp' = Caught("delete_topic", data,
                                      "Topic not found or could not be deleted",
                                      <<"delete_topic">>)
                    /\ topics' = topics
               ELSE /\ topics' = delete_topic(topics, topic_id)
                    /\ resp' = HttpOk("delete_topic", data,
                                      [kind |-> "status", status |-> "success"],
                                      <<"delete_topic">>)
    /\ UNCHANGED <<users, bg, loop, nextKey, served, taskLog, explainLog, toggles>>

\* A consume that asks for related topics whatever the row holds
NeedsOnTheFly_always(stored) == TRUE

\* "if not related_topics": nothing usable was read from the row
NeedsOnTheFly(stored) == stored = <<>>

\* The rest of bot_get_random_topic once "topic" is in hand (after the sleep, if
\* there was one): related topics from the row or generated on the fly, then the
\* response built from the row object read by get_random_topic_for_user
RandomTopicResponse(data, topic, trace) ==
    \E outcome \in RelatedOutcomes :
        LET stored == IF topic.related_topics # None
                      THEN json_loads(Val(topic.related_topics)) ELSE <<>>
            onTheFly == NeedsOnTheFly(stored)
            called == generate_related_topics(outcome)
            \* "except Exception" around the call: related_topics stays []
            generated == IF called.raised THEN <<>> ELSE called.value
            related_topics == IF onTheFly THEN generated ELSE stored
        IN /\ onTheFly \/ generated = <<>>
           /\ resp' = HttpOk("random_topic", data,
                             [kind |-> "topic", id |-> topic.id, user_id |-> topic.user_id,
                              title |-> topic.title, explanation |-> topic.explanation,
                              related_topics |-> related_topics,
                              parent_topic_title |-> topic.parent_topic_title],
                             IF onTheFly THEN Append(trace, "generate_related_topics")
                             ELSE trace)
           /\ served' = [served EXCEPT ![topic.key] = Bump(@)]

\* POST /bot/random_topic, up to the response or up to time.sleep(3)
bot_get_random_topic(data, client) ==
    /\ loop = Idle
    /\ IF ~Has(data, "user_id")
       THEN /\ resp' = HttpError("random_topic", data, 500, "Failed to get random topic", <<>>)
            /\ UNCHANGED <<users, loop, served>>
       ELSE LET user_id == Val(data.user_id)
                trace == <<"add_user", "get_random_topic_for_user">>
            IN /\ users' = add_user(users, user_id, "long")
               /\ IF RandomPicks(topics, user_id) = {}
                  THEN /\ resp' = HttpOk("random_topic", data, [kind |-> "null"], trace)
                       /\ UNCHANGED <<loop, served>>
                  ELSE \E topic \in RandomPicks(topics, user_id) :
                         IF ~Truthy(topic.explanation)
                         THEN /\ loop' = [handler |-> "random_topic", data |-> data,
                                          topic |-> topic, client |-> client,
                                          trace |-> Append(trace, "sleep")]
                              /\ UNCHANGED <<resp, served>>
                         ELSE /\ RandomTopicResponse(data, topic, trace)
                              /\ loop' = loop
    /\ UNCHANGED <<topics, bg, nextKey, taskLog, explainLog, toggles>>

\* time.sleep(3) returns: the handler goes on with the row object it holds
random_topic_after_sleep(client) ==
    /\ loop # Idle
    /\ loop.client = client
    /\ RandomTopicResponse(loop.data, loop.topic, loop.trace)
    /\ loop' = Idle
    /\ UNCHANGED <<topics, users, bg, nextKey, taskLog, explainLog, toggles>>

\* A task that passes DEFAULT_USER_MODE whatever the user's mode is
ModeForExplain_default(u, t) == "long"

\* "mode = get_mode(user_id)": the mode the task passes to generate_explanation
ModeForExplain(u, t) == get_mode(u, t.user_id)

\* generate_explanation(topic_title, parent_topic_title, mode): the arguments
ExplainCall(u, t) ==
    [topic_title |-> t.topic_title, parent_topic_title |-> t.parent_topic_title,
     mode |-> ModeForExplain(u, t)]

\* A task that rolls the created row back when it fails
AfterTaskError_rollback(rows, t) == delete_topic(rows, t.topic_id)

\* The rows after a generation task ended in its "except Exception" branch:
\* the error is logged and nothing else is done
AfterTaskError(rows, t) == rows

\* generate_and_save_explanation, run by the event loop after the add_topic
\* response: mode lookup, explain, related, update; every exception is caught
\* and logged
generate_and_save_explanation(t) ==
    /\ loop = Idle
    /\ t \in bg
    /\ bg' = bg \ {t}
    /\ users' = after_get_mode(users, t.user_id)
    /\ explainLog' = [explainLog EXCEPT ![t.key] = Some(ExplainCall(users, t))]
    /\ LET mode == ModeForExplain(users, t)
       IN \/ \* generate_explanation(topic_title, parent_topic_title, mode) raises
             /\ topics' = AfterTaskError(topics, t)
             /\ taskLog' = [taskLog EXCEPT ![t.key] = "explain failed"]
          \/ \* update_topic_explanation raises (storage failure)
             /\ topics' = AfterTaskError(topics, t)
             /\ taskLog' = [taskLog EXCEPT ![t.key] = "store failed"]
          \/ \E explanation \in ExplainTexts, outcome \in RelatedOutcomes :
               LET found == get_topic(topics, t.topic_id)
                   called == generate_related_topics(outcome)
                   related_topics == called.value
               IN IF called.raised
                  THEN \* the call is inside the task's try block
                       /\ topics' = AfterTaskError(topics, t)
                       /\ taskLog' = [taskLog EXCEPT ![t.key] = "related failed"]
                  ELSE /\ topics' = update_topic_explanation(topics, t.topic_id,
                                                             explanation, Some(related_topics))
                       /\ taskLog' = [taskLog EXCEPT ![t.key] =
                                         IF found = None THEN "not found"
                                         ELSE IF Val(found).key = t.key THEN "updated"
                                         ELSE "updated other"]
    /\ UNCHANGED <<loop, resp, nextKey, served, toggles>>

\* ---------------------------------------------------------------- front end
\* A front end that goes on to the delete after "assert explanation" failed
OnRandomTopic_delete_anyway(r, rows, user_id) ==
    IF r.status # 200
    THEN [BotIdle EXCEPT !.user_id = user_id, !.message = "BOT_TOPIC_ERROR"]
    ELSE IF r.body.kind = "null"
    THEN [BotIdle EXCEPT !.user_id = user_id, !.message = "BOT_NO_TOPICS_FOR_EXPLANATION"]
    ELSE LET key == Val(get_topic(rows, r.body.id)).key
             seen == [BotIdle EXCEPT !.user_id = user_id, !.key = key,
                                     !.topic_id = r.body.id,
                                     !.explanation = r.body.explanation]
         IN IF ~Truthy(r.body.explanation)
            THEN [seen EXCEPT !.message = "BOT_CONNECTION_ERROR", !.pc = "delete"]
            ELSE [seen EXCEPT !.message = "BOT_TOPIC_EXPLANATION", !.pc = "delete"]

\* get_topic_command after the response to POST /bot/random_topic arrived
OnRandomTopic(r, rows, user_id) ==
    IF r.status # 200
    THEN [BotIdle EXCEPT !.user_id = user_id, !.message = "BOT_TOPIC_ERROR"]
    ELSE IF r.body.kind = "null"
    THEN [BotIdle EXCEPT !.user_id = user_id, !.message = "BOT_NO_TOPICS_FOR_EXPLANATION"]
    ELSE LET key == Val(get_topic(rows, r.body.id)).key
             seen == [BotIdle EXCEPT !.user_id = user_id, !.key = key,
                                     !.topic_id = r.body.id,
                                     !.explanation = r.body.explanation]
         IN IF ~Truthy(r.body.explanation)
            THEN \* "assert explanation" fails; the outer except answers
                 [seen EXCEPT !.message = "BOT_CONNECTION_ERROR"]
            ELSE [seen EXCEPT !.message = "BOT_TOPIC_EXPLANATION", !.pc = "delete"]

\* update.message.reply_text raises while the topic is sent: the outer
\* "except Exception" answers BOT_CONNECTION_ERROR and the handler ends
RenderFailed(seen) == [seen EXCEPT !.message = "BOT_CONNECTION_ERROR", !.pc = "idle"]

\* The handler after the response: the topic's message is sent or sending fails
FlowOutcomes(b) == IF b.pc = "delete" THEN {b, RenderFailed(b)} ELSE {b}

UserData(user_id) == [NoData EXCEPT !.user_id = Some(user_id)]
TopicIdData(topic_id) == [NoData EXCEPT !.topic_id = Some(topic_id)]

\* /topic: get_topic_command posts {"user_id": ...} to /bot/random_topic
BotGetTopic(user_id) ==
    /\ bot.pc = "idle"
    /\ bot_get_random_topic(UserData(user_id), "bot")
    /\ bot' \in IF loop' # Idle
                THEN {[BotIdle EXCEPT !.pc = "await", !.user_id = user_id]}
                ELSE FlowOutcomes(OnRandomTopic(resp', topics, user_id))
    /\ UNCHANGED front

\* the response arrives after the server's sleep
BotGetTopicAfterSleep ==
    /\ bot.pc = "await"
    /\ random_topic_after_sleep("bot")
    /\ bot' \in FlowOutcomes(OnRandomTopic(resp', topics, bot.user_id))
    /\ UNCHANGED front

\* send_delete_topic_request after the topic was displayed
BotDeleteTopic ==
    /\ bot.pc = "delete"
    /\ bot_delete_topic(TopicIdData(bot.topic_id))
    /\ bot' = [bot EXCEPT !.pc = "idle"]
    /\ UNCHANGED front

\* ---------------------------------------------------------------- related-topic buttons
\* Titles of consumed topics and of the related topics suggested with them
ConsumedTitles == {<<"p">>, <<"q">>}
ButtonTitles == {<<"x">>, <<"y">>}
RelatedTopics == {<<t>> : t \in ButtonTitles} \cup {<<t1, t2>> : t1, t2 \in ButtonTitles}
ButtonIds == 0..(MaxButtons - 1)

NoButton == [callback_data |-> 0, text |-> <<>>, parent |-> <<>>, user_id |-> 0]

\* parent_topic_map = {}, related_topic_map = {}, related_topic_counter = 0;
\* no button rendered and none pressed
FrontIdle ==
    [parent_topic_map |-> [t \in ButtonTitles |-> None],
     related_topic_map |-> [i \in ButtonIds |-> None],
     related_topic_counter |-> 0,
     buttons |-> {},
     pressed |-> [button |-> NoButton, answer |-> "none", topic_id |-> 0]]

\* get_topic_command, "for related_topic in related_topics": the maps and the
\* counter after the loop, and the buttons of the message (text related_topic,
\* callback_data "add_<id>") in the chat of the user
RECURSIVE RenderButtons(_, _, _, _)
RenderButtons(f, user_id, title, related_topics) ==
    IF related_topics = <<>>
    THEN f
    ELSE LET related_topic == Head(related_topics)
             related_topic_id == f.related_topic_counter
             button == [callback_data |-> related_topic_id, text |-> related_topic,
                        parent |-> title, user_id |-> user_id]
         IN RenderButtons(
              [f EXCEPT !.parent_topic_map[related_topic] = Some(title),
                        !.related_topic_counter = related_topic_id + 1,
                        !.related_topic_map[related_topic_id] = Some(related_topic),
                        !.buttons = @ \cup {button}],
              user_id, title, Tail(related_topics))

\* get_topic_command shows a consumed topic with its related-topic buttons
ShowTopic(user_id) ==
    \E title \in ConsumedTitles, related_topics \in RelatedTopics :
        /\ front.related_topic_counter + Len(related_topics) <= MaxButtons
        /\ Cardinality(front.buttons) + Len(related_topics) <= MaxRendered
        /\ front' = RenderButtons(front, user_id, title, related_topics)
        /\ UNCHANGED <<topics, users, bg, loop, resp, bot, nextKey, served, taskLog,
                       explainLog, toggles>>

\* cleanup_topic_maps, run by the job queue every hour
cleanup_topic_maps ==
    /\ front' = [front EXCEPT !.parent_topic_map = FrontIdle.parent_topic_map,
                              !.related_topic_map = FrontIdle.related_topic_map,
                              !.related_topic_counter = 0]
    /\ UNCHANGED <<topics, users, bg, loop, resp, bot, nextKey, served, taskLog,
                   explainLog, toggles>>

\* send_add_topic_request: parent_topic_title goes into the body when truthy
ButtonAddData(user_id, topic, parent_topic_title) ==
    [NoData EXCEPT !.user_id = Some(user_id), !.topic_title = Some(topic),
                   !.parent_topic_title = parent_topic_title]

\* button_callback for a press of a rendered button: the title is looked up by
\* the id in callback_data, the parent by that title, and the topic is added
\* for the user who pressed
button_callback(button) ==
    LET topic == front.related_topic_map[button.callback_data]
    IN IF topic = None
       THEN \* "assert topic" fails
            /\ front' = [front EXCEPT !.pressed =
                            [button |-> button,
                             answer |-> "BOT_TOPIC_ADDED_FROM_CALLBACK_ERROR",
                             topic_id |-> 0]]
            /\ UNCHANGED <<topics, users, bg, loop, resp, bot, nextKey, served, taskLog,
                           explainLog, toggles>>
       ELSE /\ bot_add_topic(ButtonAddData(button.user_id, Val(topic),
                                           front.parent_topic_map[Val(topic)]))
            /\ front' = [front EXCEPT !.pressed =
                            IF resp'.status = 200
                            THEN [button |-> button,
                                  answer |-> "BOT_TOPIC_ADDED_FROM_CALLBACK",
                                  topic_id |-> resp'.body.id]
                            ELSE [button |-> button,
                                  answer |-> "BOT_TOPIC_ADDED_FROM_CALLBACK_ERROR",
                                  topic_id |-> 0]]
            /\ UNCHANGED bot

PressButton == \E button \in front.buttons : button_callback(button)

\* ---------------------------------------------------------------- other HTTP clients
Opt(S) == {None} \cup {Some(v) : v \in S}

AddData == {[NoData EXCEPT !.user_id = u, !.topic_title = t, !.parent_topic_title = p] :
              u \in Opt(UserIds), t \in Opt(Titles), p \in Opt(ParentTitles)}
UserOnlyData == {[NoData EXCEPT !.user_id = u] : u \in Opt(UserIds)}
DeleteData == {[NoData EXCEPT !.topic_id = i] : i \in Opt(1..MaxTopics)}

ApiAddTopic == \E d \in AddData : bot_add_topic(d) /\ UNCHANGED <<bot, front>>
ApiListTopics == \E d \in UserOnlyData : bot_list_topics(d) /\ UNCHANGED <<bot, front>>
ApiRandomTopic == \E d \in UserOnlyData : bot_get_random_topic(d, "api") /\ UNCHANGED <<bot, front>>
ApiRandomTopicAfterSleep == random_topic_after_sleep("api") /\ UNCHANGED <<bot, front>>
ApiDeleteTopic == \E d \in DeleteData : bot_delete_topic(d) /\ UNCHANGED <<bot, front>>
ApiChangeMode == \E d \in UserOnlyData : change_mode(d) /\ UNCHANGED <<bot, front>>
RunTask == \E t \in bg : generate_and_save_explanation(t) /\ UNCHANGED <<bot, front>>

Init ==
    /\ topics = {}
    /\ users = [u \in UserIds |-> NoRow]
    /\ bg = {}
    /\ loop = Idle
    /\ resp = NoResp
    /\ bot = BotIdle
    /\ nextKey = 1
    /\ served = [k \in Keys |-> 0]
    /\ taskLog = [k \in Keys |-> "none"]
    /\ explainLog = [k \in Keys |-> None]
    /\ toggles = [u \in UserIds |-> 0]
    /\ front = FrontIdle

\* The server's topic endpoints with any HTTP client
NextServer ==
    \/ ApiAddTopic
    \/ ApiListTopics
    \/ ApiRandomTopic
    \/ ApiRandomTopicAfterSleep
    \/ ApiDeleteTopic
    \/ RunTask

SpecServer == Init /\ [][NextServer]_vars

\* The server's user-mode endpoint next to the endpoints that create, list and
\* delete topics, and the generation tasks
NextMode ==
    \/ ApiChangeMode
    \/ ApiAddTopic
    \/ ApiListTopics
    \/ ApiDeleteTopic
    \/ RunTask

SpecMode == Init /\ [][NextMode]_vars

\* Topics are added and deleted over HTTP while no generation task has run yet:
\* bg holds the task of every topic created so far, with the id it was given
NextIds ==
    \/ ApiAddTopic
    \/ ApiDeleteTopic

SpecIds == Init /\ [][NextIds]_vars

\* The front end's consume flow against the server; topics are added and
\* deleted over HTTP
NextFlow ==
    \/ ApiAddTopic
    \/ ApiDeleteTopic
    \/ RunTask
    \/ \E u \in UserIds : BotGetTopic(u)
    \/ BotGetTopicAfterSleep
    \/ BotDeleteTopic

SpecFlow == Init /\ [][NextFlow]_vars

\* ---------------------------------------------------------------- store clients
\* get_random_topic_for_user issues two queries in one session.  In the server
\* nothing runs between them; the steps below take them apart, with a second
\* client of the same database file (every store function opens a session of
\* its own) deleting rows in between.

\* What get_random_topic_for_user returns; topic_count is the count it had seen
PickResult(user_id, topic_count_seen, topic) ==
    [endpoint |-> "get_random_topic_for_user", data |-> UserData(user_id), status |-> 0,
     body |-> IF topic = None
              THEN [kind |-> "null", topic_count |-> topic_count_seen]
              ELSE [kind |-> "row", topic_count |-> topic_count_seen, row |-> Val(topic)],
     trace |-> <<>>]

\* An offset query answered from the rows as they were at the count
RowsAtFetch_snapshot(seen, current) == seen

\* The offset query reads the table as it is when the query runs
RowsAtFetch(seen, current) == current

\* count query, then random.randint(0, topic_count - 1)
PickCount(user_id) ==
    /\ loop = Idle
    /\ LET n == topic_count(topics, user_id)
       IN IF n = 0
          THEN /\ resp' = PickResult(user_id, 0, None)
               /\ loop' = loop
          ELSE /\ \E random_offset \in 0..(n - 1) :
                    loop' = [handler |-> "pick", user_id |-> user_id, topic_count |-> n,
                             random_offset |-> random_offset, seen |-> topics]
               /\ resp' = resp
    /\ UNCHANGED <<topics, users, bg, bot, front, nextKey, served, taskLog, explainLog, toggles>>

\* delete_topic(topic_id) committed by the other client between the two queries
OtherDelete ==
    /\ loop.handler = "pick"
    /\ \E topic_id \in Ids(topics) : topics' = delete_topic(topics, topic_id)
    /\ UNCHANGED <<users, bg, loop, resp, bot, front, nextKey, served, taskLog, explainLog, toggles>>

\* offset query and return
PickFetch ==
    /\ loop.handler = "pick"
    /\ resp' = PickResult(loop.user_id, loop.topic_count,
                          offset_first(RowsAtFetch(loop.seen, topics),
                                       loop.user_id, loop.random_offset))
    /\ loop' = Idle
    /\ UNCHANGED <<topics, users, bg, bot, front, nextKey, served, taskLog, explainLog, toggles>>

NextPick ==
    \/ ApiAddTopic
    \/ \E u \in UserIds : PickCount(u)
    \/ OtherDelete
    \/ PickFetch

SpecPick == Init /\ [][NextPick]_vars

\* The front end rendering consumed topics, its users pressing the buttons of
\* any message still in their chat, and the hourly cleanup job
NextButtons ==
    \/ \E u \in UserIds : ShowTopic(u)
    \/ cleanup_topic_maps
    \/ PressButton

SpecButtons == Init /\ [][NextButtons]_vars

\* ---------------------------------------------------------------- parse
ParseCall(text) ==
    [endpoint |-> "parse_topics_from_text", data |-> NoData, status |-> 0,
     body |-> [kind |-> "text", text |-> text], trace |-> <<>>]

ParseResult(text, parsed) ==
    [endpoint |-> "parse_topics_from_text", data |-> NoData, status |-> 0,
     body |-> [kind |-> "parsed", text |-> text, parsed |-> parsed], trace |-> <<>>]

\* parse_topics_from_text is about to be called with any text
InitParse ==
    /\ topics = {}
    /\ users = [u \in UserIds |-> NoRow]
    /\ bg = {}
    /\ loop = Idle
    /\ resp \in {ParseCall(text) : text \in Texts}
    /\ bot = BotIdle
    /\ nextKey = 1
    /\ served = [k \in Keys |-> 0]
    /\ taskLog = [k \in Keys |-> "none"]
    /\ explainLog = [k \in Keys |-> None]
    /\ toggles = [u \in UserIds |-> 0]
    /\ front = FrontIdle

\* the call returns
Parse ==
    /\ resp.endpoint = "parse_topics_from_text"
    /\ resp.body.kind = "text"
    /\ resp' = ParseResult(resp.body.text, parse_topics_from_text(resp.body.text))
    /\ UNCHANGED <<topics, users, bg, loop, bot, front, nextKey, served, taskLog,
                   explainLog, toggles>>

NextParse == Parse

SpecParse == InitParse /\ [][NextParse]_vars

\* ---------------------------------------------------------------- toggle
\* POST /change_mode, first half of toggle_mode: the handler starts on the idle
\* event loop and get_mode reads the current mode
ToggleRead(user_id) ==
    /\ loop = Idle
    /\ toggles[user_id] < MaxToggles
    /\ loop' = [handler |-> "change_mode", user_id |-> user_id,
                current_mode |-> get_mode(users, user_id)]
    /\ users' = after_get_mode(users, user_id)
    /\ UNCHANGED <<topics, bg, resp, bot, front, nextKey, served, taskLog, explainLog, toggles>>

\* second half of toggle_mode: add_user stores the other mode than the one
\* read, and the handler answers
ToggleWrite ==
    /\ loop.handler = "change_mode"
    /\ LET new_mode == NewMode(loop.current_mode)
       IN /\ users' = add_user(users, loop.user_id, new_mode)
          /\ resp' = HttpOk("change_mode", UserData(loop.user_id),
                            [kind |-> "mode", user_id |-> loop.user_id, mode |-> new_mode],
                            <<"get_mode", "add_user">>)
    /\ toggles' = [toggles EXCEPT ![loop.user_id] = @ + 1]
    /\ loop' = Idle
    /\ UNCHANGED <<topics, bg, bot, front, nextKey, served, taskLog, explainLog>>

\* change_mode requests of all users arriving in any order
NextToggle ==
    \/ \E u \in UserIds : ToggleRead(u)
    \/ ToggleWrite

SpecToggle == Init /\ [][NextToggle]_vars

\* ---------------------------------------------------------------- update
\* What a caller of update_topic_explanation passed and got back: the refreshed
\* row, or None when no row has the id
UpdateResult(topic_id, explanation, related, topic) ==
    [endpoint |-> "update_topic_explanation", data |-> TopicIdData(topic_id), status |-> 0,
     body |-> IF topic = None
              THEN [kind |-> "null", explanation_arg |-> explanation, related_arg |-> related]
              ELSE [kind |-> "row", explanation_arg |-> explanation, related_arg |-> related,
                    row |-> Val(topic)],
     trace |-> <<>>]

\* update_topic_explanation(topic_id, explanation, related_topics=None) called
\* on the store with any payload
StoreUpdate ==
    /\ loop = Idle
    /\ \E topic_id \in 1..MaxTopics, explanation \in ExplainTexts,
          related \in Opt(RelatedLists) :
          /\ topics' = update_topic_explanation(topics, topic_id, explanation, related)
          /\ resp' = UpdateResult(topic_id, explanation, related,
                                  get_topic(topics', topic_id))
    /\ UNCHANGED <<users, bg, loop, bot, front, nextKey, served, taskLog, explainLog, toggles>>

NextUpdate ==
    \/ ApiAddTopic
    \/ StoreUpdate

SpecUpdate == Init /\ [][NextUpdate]_vars

TypeOK ==
    /\ \A r \in topics : r.id \in 1..MaxTopics /\ r.key \in Keys /\ r.user_id \in UserIds
    /\ nextKey \in 1..(MaxTopics + 1)
    /\ bot.pc \in {"idle", "await", "delete"}
    /\ \A k \in Keys : Cardinality({r \in topics : r.key = k}) <= 1

\* ---------------------------------------------------------------- claims
RowOf(k) == CHOOSE r \in topics : r.key = k
Stored(k) == \E r \in topics : r.key = k
FlowEnded == bot.pc = "idle" /\ bot.message # "none"

\* C1: every consume flow that found a topic has deleted that topic's row by
\* the time the flow ends, whether the explanation was present or null.
C1_FlowDeletesFoundTopic ==
    (FlowEnded /\ bot.key # 0) => ~Stored(bot.key)

\* C2: a topic is returned by /bot/random_topic at most once over any
\* sequence of consume flows.
C2_ServedAtMostOnce ==
    \A k \in Keys : served[k] <= 1

UpdateAfterDelete(k) == taskLog[k] \in {"not found", "updated other"}

\* C3: when a generation task calls update_topic_explanation after its topic
\* was deleted, the call reports not-found (it updates no row).
C3_UpdateAfterDeleteNotFound ==
    \A k \in Keys : UpdateAfterDelete(k) => taskLog[k] = "not found"

ReadsTopic(call) == call \in {"get_random_topic_for_user", "get_topic"}

\* C4: a /bot/random_topic handler that waited the grace period reads the
\* topic from the store again after the wait.
C4_RereadAfterWait ==
    resp.endpoint = "random_topic" =>
        \A i \in DOMAIN resp.trace :
            resp.trace[i] = "sleep" =>
                \E j \in DOMAIN resp.trace : j > i /\ ReadsTopic(resp.trace[j])

\* C5: a consume flow that obtained a topic with a null explanation shows the
\* "could not generate an explanation" fallback and deletes the topic.
C5_NullExplanationFallback ==
    (FlowEnded /\ bot.key # 0 /\ bot.explanation = None) =>
        (bot.message = "BOT_NO_EXPLANATION" /\ ~Stored(bot.key))

TaskFailed(k) == taskLog[k] \in {"explain failed", "store failed"}

\* C6: a topic whose generation task failed (explain or the store write
\* raised) keeps a null explanation for as long as it is stored.
C6_FailedTaskLeavesNull ==
    \A k \in Keys : (TaskFailed(k) /\ Stored(k)) => RowOf(k).explanation = None

ShowsExplained(d) == d.explanation # None /\ d.related_topics \in RelatedLists

\* C7: a topic that was stored when its generation task completed successfully
\* shows, in list_topics and get_topic, a non-null explanation and a list of
\* related topics for as long as it is stored.
C7_ExplainedAfterTask ==
    \A k \in Keys : (taskLog[k] = "updated" /\ Stored(k)) =>
        LET r == RowOf(k)
            listed == list_topics(topics, r.user_id)
        IN /\ r.related_topics # None
           /\ ShowsExplained(to_dict(Val(get_topic(topics, r.id))))
           /\ \E i \in DOMAIN listed : listed[i].id = r.id /\ ShowsExplained(listed[i])

C7_Witness ==
    \E k \in Keys : taskLog[k] = "updated" /\ Stored(k)
                    /\ to_dict(RowOf(k)).related_topics = <<"R1">>

ValidAdd(r) ==
    /\ r.endpoint = "add_topic"
    /\ Has(r.data, "user_id") /\ Has(r.data, "topic_title")
    /\ Strip(Val(r.data.topic_title)) # <<>>

AddedEntry(r) ==
    [id |-> r.body.id, user_id |-> Val(r.data.user_id),
     title |-> Val(r.data.topic_title), explanation |-> None,
     related_topics |-> <<>>, parent_topic_title |-> r.data.parent_topic_title]

\* C8: an add_topic whose title is non-empty after trimming succeeds, and
\* list_topics for that user right after it is the list before it plus one
\* entry with the new id, the title as given and a null explanation.
C8_AddThenList ==
    [][(resp' # resp /\ ValidAdd(resp')) =>
          /\ resp'.status = 200
          /\ resp'.body.id \notin Ids(topics)
          /\ list_topics(topics', Val(resp'.data.user_id))
               = Append(list_topics(topics, Val(resp'.data.user_id)), AddedEntry(resp'))]_vars

C8_Witness ==
    /\ ValidAdd(resp) /\ resp.status = 200
    /\ Len(list_topics(topics, Val(resp.data.user_id))) = 2
    /\ list_topics(topics, Val(resp.data.user_id))[2] = AddedEntry(resp)

RowKeys(rows) == {r.key : r \in rows}

\* C9: a generation task is scheduled in the step that commits its topic's row
\* and answers add_topic with 200 while the task has not run; the step that
\* runs a task, whatever its outcome, removes no row and leaves the response
\* that was sent as it is.
C9_TaskDetached ==
    [][/\ \A t \in bg' \ bg :
             /\ t.key \in RowKeys(topics') \ RowKeys(topics)
             /\ resp'.endpoint = "add_topic" /\ resp'.status = 200
             /\ resp'.body.id = t.topic_id
       /\ (bg \ bg' # {}) => (RowKeys(topics') = RowKeys(topics) /\ resp' = resp)]_vars

C9_Witness ==
    \E k \in Keys : TaskFailed(k) /\ Stored(k)
                    /\ resp.endpoint = "add_topic" /\ resp.status = 200
                    /\ resp.body.id = RowOf(k).id

Lacks(r) ==
    \/ r.endpoint \in {"add_topic", "list_topics", "random_topic", "change_mode"}
       /\ ~Has(r.data, "user_id")
    \/ r.endpoint = "add_topic" /\ ~Has(r.data, "topic_title")
    \/ r.endpoint = "delete_topic" /\ ~Has(r.data, "topic_id")

EmptyTitle(r) ==
    /\ r.endpoint = "add_topic"
    /\ Has(r.data, "user_id") /\ Has(r.data, "topic_title")
    /\ Strip(Val(r.data.topic_title)) = <<>>

\* C10: a request that lacks a required field, and an add_topic whose title is
\* empty after trimming, is answered with status 400 and {"error": detail}.
C10_ValidationIs400 ==
    /\ Lacks(resp) => (resp.status = 400 /\ resp.body.kind = "error")
    /\ EmptyTitle(resp) =>
          (resp.status = 400 /\ resp.body = [kind |-> "error",
                                             error |-> "topic_title cannot be empty"])

\* C11: an add_topic rejected for a title that is empty after trimming writes
\* nothing: the topic rows, the user rows and the scheduled tasks are the same
\* after the request as before it.
C11_RejectedAddWritesNothing ==
    [][(resp' # resp /\ EmptyTitle(resp')) =>
          (topics' = topics /\ users' = users /\ bg' = bg)]_vars

ModeCall(r) == r.endpoint = "change_mode" /\ r.status = 200

\* C12: every successful change_mode returns the mode it stored, and that mode
\* is the other one than the user's mode before the call ("long" for a user
\* without a row, so the first call returns "short"); the second of two
\* consecutive calls for one user returns the other mode than the first, which
\* is the mode held before them.
C12_ChangeModeInvolution ==
    [][(resp' # resp /\ ModeCall(resp')) =>
          LET u == Val(resp'.data.user_id)
          IN /\ resp'.body.mode = users'[u]
             /\ users'[u] \in Modes
             /\ users'[u] # get_mode(users, u)
             /\ users[u] = NoRow => resp'.body.mode = "short"
             /\ (ModeCall(resp) /\ resp.data = resp'.data) =>
                    /\ resp'.body.mode # resp.body.mode
                    /\ get_mode(users', u) # get_mode(users, u)]_vars

C12_Witness ==
    /\ ModeCall(resp)
    /\ resp.body.mode = "long"
    /\ users[Val(resp.data.user_id)] = "long"

\* C13: a stored mode "short" is changed by no step other than a change_mode
\* request: add_topic, list_topics and random_topic leave it "short", so the
\* generation task of a topic added afterwards reads "short".
C13_ModeChangesOnlyByChangeMode ==
    [][\A u \in UserIds :
          (users[u] = "short" /\ users'[u] # "short") =>
              (resp' # resp /\ resp'.endpoint = "change_mode")]_vars

ConsumeCall(r) == r.endpoint = "random_topic" /\ Has(r.data, "user_id")

\* C14: a /bot/random_topic request for a user who has no topic is answered
\* with 200 and null, leaves the set of stored topics as it is, and the front
\* end sends no delete after it.
C14_ConsumeOfNothingDeletesNothing ==
    [][(resp' # resp /\ ConsumeCall(resp')
          /\ topic_count(topics, Val(resp'.data.user_id)) = 0) =>
              /\ resp'.status = 200
              /\ resp'.body.kind = "null"
              /\ topics' = topics
              /\ bot'.pc # "delete"]_vars

C14_Witness ==
    /\ ConsumeCall(resp) /\ resp.body.kind = "null"
    /\ bot.message = "BOT_NO_TOPICS_FOR_EXPLANATION"
    /\ topics # {}

\* C15: for a user with exactly one topic the pick can select that row and no
\* other outcome, and /bot/random_topic answers with that topic.
C15_SingleTopicIsPicked ==
    [][/\ \A u \in UserIds :
             topic_count(topics, u) = 1 =>
                 /\ RandomPicks(topics, u) = {UserRows(topics, u)[1]}
                 /\ offset_first(topics, u, 0) = Some(UserRows(topics, u)[1])
       /\ (resp' # resp /\ ConsumeCall(resp')
              /\ topic_count(topics, Val(resp'.data.user_id)) = 1) =>
                 LET row == UserRows(topics, Val(resp'.data.user_id))[1]
                 IN /\ resp'.status = 200
                    /\ resp'.body.kind = "topic"
                    /\ resp'.body.id = row.id
                    /\ resp'.body.title = row.title]_vars

C15_Witness ==
    /\ ConsumeCall(resp) /\ resp.body.kind = "topic"
    /\ topic_count(topics, Val(resp.data.user_id)) = 1
    /\ Cardinality(topics) = 2

PickReturned ==
    /\ resp'.endpoint = "get_random_topic_for_user"
    /\ (loop.handler = "pick" /\ loop' = Idle) \/ resp' # resp

\* C16: whatever rows are deleted between the count and the offset query,
\* get_random_topic_for_user returns None or a row that is in the table when it
\* returns and belongs to the user asked for.
C16_PickToleratesDelete ==
    [][PickReturned =>
          \/ resp'.body.kind = "null"
          \/ /\ resp'.body.kind = "row"
             /\ resp'.body.row \in topics'
             /\ resp'.body.row.user_id = Val(resp'.data.user_id)]_vars

C16_Witness ==
    /\ resp.endpoint = "get_random_topic_for_user"
    /\ resp.body.kind = "null"
    /\ resp.body.topic_count > 0

DeleteCall(r) == r.endpoint = "delete_topic" /\ Has(r.data, "topic_id")

\* C17: delete_topic(id) returns true exactly when a row with that id is in
\* the table, and then removes that row and no other; for an id without a row
\* it returns false and leaves the table as it is, so a second delete of the
\* same id returns false.  /bot/delete_topic changes the table in the same way.
C17_DeleteReportsRemoval ==
    [][/\ \A id \in 1..MaxTopics :
             LET after == delete_topic(topics, id)
             IN /\ delete_topic_success(topics, id) <=> id \in Ids(topics)
                /\ delete_topic_success(topics, id) =>
                       /\ id \notin Ids(after)
                       /\ after \subseteq topics
                       /\ Cardinality(after) = Cardinality(topics) - 1
                /\ ~delete_topic_success(topics, id) => after = topics
                /\ ~delete_topic_success(after, id)
       /\ (resp' # resp /\ DeleteCall(resp')) =>
             LET id == Val(resp'.data.topic_id)
             IN IF id \in Ids(topics)
                THEN /\ resp'.status = 200
                     /\ topics' = topics \ {Val(get_topic(topics, id))}
                ELSE /\ resp'.status # 200
                     /\ topics' = topics]_vars

C17_Witness ==
    /\ DeleteCall(resp) /\ resp.status # 200
    /\ Val(resp.data.topic_id) = 1
    /\ nextKey = 2 /\ topics = {}

\* C18: /bot/delete_topic for a topic_id without a row is answered with 404,
\* and with 200 and a status body when the row was there and was deleted.
C18_DeleteMissingIs404 ==
    [][(resp' # resp /\ DeleteCall(resp')) =>
          IF Val(resp'.data.topic_id) \in Ids(topics)
          THEN resp'.status = 200 /\ resp'.body.kind = "status"
          ELSE resp'.status = 404]_vars

OnTheFly(r) ==
    /\ r.endpoint = "random_topic"
    /\ \E i \in DOMAIN r.trace : r.trace[i] = "generate_related_topics"

TaskRan == bg' # bg /\ bg' \subseteq bg

\* C20: get_mode returns "long" for a user without a row and the stored mode
\* otherwise, and leaves the users table as it is: a user without a row still
\* has none after the call, and the generation task, which calls get_mode and
\* no other function on users, does not change the table.
C20_GetModeReadsOnly ==
    [][/\ \A u \in UserIds :
             /\ after_get_mode(users, u) = users
             /\ users[u] = NoRow => get_mode(users, u) = "long"
             /\ users[u] # NoRow => get_mode(users, u) = users[u]
       /\ TaskRan => users' = users]_vars

C20_Witness ==
    /\ \E u \in UserIds : users[u] = NoRow /\ get_mode(users, u) = "long"
    /\ \E k \in Keys : taskLog[k] # "none"
    /\ ModeCall(resp) /\ resp.body.mode = "short" /\ nextKey = 2

Ensures(r) == r.endpoint \in {"add_topic", "list_topics"} /\ r.status = 200

\* C21: a User row exists for every user_id for which an add_topic that
\* created a topic or a list_topics has completed: the step that answers such a
\* request leaves a row for its user_id, and no step removes a user row.
C21_UserRowAfterRequest ==
    [][/\ \A u \in UserIds : users[u] # NoRow => users'[u] # NoRow
       /\ (resp' # resp /\ Ensures(resp')) => users'[Val(resp'.data.user_id)] # NoRow]_vars

C21_Witness ==
    /\ resp.endpoint = "add_topic" /\ resp.status = 200
    /\ users[Val(resp.data.user_id)] # NoRow
    /\ \E u \in UserIds : users[u] = NoRow
    /\ \E r \in topics : r.user_id = Val(resp.data.user_id)

\* C22: topic ids are unique over the whole history: an id that was assigned to
\* a topic is never assigned to another topic, also after the first was deleted.
C22_IdsNeverReused ==
    \A t1, t2 \in bg : t1.key # t2.key => t1.topic_id # t2.topic_id

StoredIn(rows, k) == \E r \in rows : r.key = k
RowIn(rows, k) == CHOOSE r \in rows : r.key = k
Explained(rows, k) == StoredIn(rows, k) /\ RowIn(rows, k).explanation # None
Consumed(rows, next, k) == k < next /\ ~StoredIn(rows, k)

\* C23: a topic moves only along CREATED -> EXPLAINED -> CONSUMED or
\* CREATED -> CONSUMED: no step sets a stored non-null explanation back to
\* null, a deleted topic is never stored again, and list_topics, get_topic, the
\* pick and the /bot/random_topic response return stored rows only.
C23_LifecycleOneWay ==
    [][/\ \A k \in Keys :
             /\ (Explained(topics, k) /\ StoredIn(topics', k)) => Explained(topics', k)
             /\ Consumed(topics, nextKey, k) => Consumed(topics', nextKey', k)
       /\ \A u \in UserIds :
             /\ RandomPicks(topics', u) \subseteq topics'
             /\ \A i \in DOMAIN list_topics(topics', u) :
                    \E r \in topics' : list_topics(topics', u)[i] = to_dict(r)
       /\ \A id \in 1..MaxTopics :
             get_topic(topics', id) # None => Val(get_topic(topics', id)) \in topics'
       /\ (resp' # resp /\ resp'.endpoint = "random_topic" /\ resp'.status = 200
              /\ resp'.body.kind = "topic") =>
                 \E r \in topics' : /\ r.id = resp'.body.id
                                     /\ r.title = resp'.body.title
                                     /\ r.explanation = resp'.body.explanation
       /\ (resp' # resp /\ resp'.endpoint = "list_topics" /\ resp'.status = 200) =>
                 \A i \in DOMAIN resp'.body.topics :
                    \E r \in topics' : resp'.body.topics[i] = to_dict(r)]_vars

C23_Witness ==
    /\ resp.endpoint = "list_topics" /\ resp.status = 200
    /\ Len(resp.body.topics) = 1
    /\ \E k \in Keys : Consumed(topics, nextKey, k) /\ taskLog[k] = "updated"
    /\ \E k \in Keys : Explained(topics, k) /\ taskLog[k] = "updated"

\* C24: each successful add_topic schedules exactly one generation task, and a
\* topic's row is written at most once, by the task scheduled for that topic:
\* a task step changes no row of another topic and no row that was already
\* written.
C24_OneTaskOneUpdate ==
    [][/\ (resp' # resp /\ ValidAdd(resp') /\ resp'.status = 200) =>
             Cardinality(bg' \ bg) = 1
       /\ \A t \in bg \ bg' :
             \A r \in topics \ topics' :
                 /\ r.key = t.key
                 /\ r.explanation = None /\ r.related_topics = None]_vars

\* C25: explanation and related_topics are written together: in every
\* reachable state a stored topic has a non-null related_topics exactly when
\* its explanation is non-null.
C25_WrittenTogether ==
    \A r \in topics : (r.related_topics # None) <=> (r.explanation # None)

C25_Witness ==
    /\ \E r \in topics : r.explanation # None /\ r.related_topics # None
                          /\ taskLog[r.key] = "updated"
    /\ \E r \in topics : r.explanation = None /\ r.related_topics = None
                          /\ TaskFailed(r.key)

Consume(r) == r.endpoint = "random_topic" /\ r.status = 200 /\ r.body.kind = "topic"
Persisted(rows, id) == to_dict(Val(get_topic(rows, id))).related_topics

\* C26: a /bot/random_topic request that returns a topic calls
\* generate_related_topics exactly when the picked row holds no related topics
\* (NULL or an empty list); a stored non-empty list is returned as it is, with
\* no call; and the request writes nothing to the topics table, so a list
\* generated on the fly is not stored.
C26_RelatedOnTheFlyWhenAbsent ==
    [][(resp' # resp /\ Consume(resp')) =>
          /\ get_topic(topics, resp'.body.id) # None
          /\ OnTheFly(resp') <=> Persisted(topics, resp'.body.id) = <<>>
          /\ Persisted(topics, resp'.body.id) # <<>> =>
                 resp'.body.related_topics = Persisted(topics, resp'.body.id)
          /\ topics' = topics]_vars

C26_Witness ==
    /\ Consume(resp) /\ OnTheFly(resp)
    /\ resp.body.related_topics = <<"R1">>
    /\ \E r \in topics : /\ r.id = resp.body.id
                          /\ r.explanation = Some("E1")
                          /\ r.related_topics = Some(json_dumps(<<>>))

Created(r) ==
    [id |-> r.id, user_id |-> r.user_id, title |-> r.title,
     parent_topic_title |-> r.parent_topic_title]

\* C27: no step changes the id, user_id, title or parent_topic_title of a
\* stored topic; update_topic_explanation changes nothing but explanation and
\* related_topics of the row with the given id, and a generation task leaves
\* every row with another id as it is.
C27_CreatedFieldsFrozen ==
    [][/\ \A k \in Keys :
             (StoredIn(topics, k) /\ StoredIn(topics', k)) =>
                 Created(RowIn(topics', k)) = Created(RowIn(topics, k))
       /\ \A id \in 1..MaxTopics, e \in ExplainTexts, rel \in Opt(RelatedLists) :
             LET after == update_topic_explanation(topics, id, e, rel)
             IN /\ {r \in after : r.id # id} = {r \in topics : r.id # id}
                /\ {Created(r) : r \in after} = {Created(r) : r \in topics}
                /\ Cardinality(after) = Cardinality(topics)
       /\ \A t \in bg \ bg' :
             {r \in topics' : r.id # t.topic_id} = {r \in topics : r.id # t.topic_id}]_vars

C27_Witness ==
    \E r1, r2 \in topics :
        /\ r1.id # r2.id
        /\ taskLog[r1.key] = "updated" /\ r1.explanation = Some("E1")
        /\ taskLog[r2.key] = "none" /\ r2.explanation = None /\ r2.related_topics = None

UpdateCall(r) == r.endpoint = "update_topic_explanation" /\ r.body.kind = "row"

\* C28: update_topic_explanation is last-writer-wins: after a call on an
\* existing topic the stored explanation and related topics are those of that
\* call, whatever an earlier call stored; a call that passes no related_topics
\* leaves the topic without related topics.
C28_LastWriterWins ==
    UpdateCall(resp) =>
        LET row == Val(get_topic(topics, Val(resp.data.topic_id)))
        IN /\ row.explanation = Some(resp.body.explanation_arg)
           /\ to_dict(row).related_topics =
                 IF resp.body.related_arg = None THEN <<>> ELSE Val(resp.body.related_arg)

\* C29: a generation task passes to generate_explanation the mode it read for
\* its user when it started and reads without writing the users table; the
\* arguments of a call that was made are changed by no later step, so a
\* change_mode after the read does not alter them; and change_mode changes no
\* topic row.
C29_ModeReadAtTaskStart ==
    [][/\ \A t \in bg \ bg' :
             /\ explainLog[t.key] = None
             /\ explainLog'[t.key] # None
             /\ Val(explainLog'[t.key]).mode = get_mode(users, t.user_id)
             /\ Val(explainLog'[t.key]).topic_title = t.topic_title
             /\ users' = users
       /\ \A k \in Keys : explainLog[k] # None => explainLog'[k] = explainLog[k]
       /\ (resp' # resp /\ resp'.endpoint = "change_mode") =>
             (topics' = topics /\ explainLog' = explainLog /\ bg' = bg)]_vars

C29_Witness ==
    /\ ModeCall(resp)
    /\ \E k \in Keys :
          /\ explainLog[k] # None /\ Val(explainLog[k]).mode = "short"
          /\ Stored(k) /\ RowOf(k).explanation # None
          /\ RowOf(k).user_id = Val(resp.data.user_id)
          /\ users[RowOf(k).user_id] = "long"

Duplicate(rows, r) ==
    /\ ValidAdd(r)
    /\ \E row \in rows : /\ row.user_id = Val(r.data.user_id)
                          /\ row.title = Val(r.data.topic_title)

\* C30: duplicate titles are allowed: an add_topic for a user who already has
\* a stored topic with the same title succeeds, adds one row whose id differs
\* from the id of every stored row and keeps the rows that were there, and
\* schedules one generation task, for the new row; stored rows have pairwise
\* distinct ids.
C30_DuplicateTitlesAllowed ==
    [][/\ (resp' # resp /\ Duplicate(topics, resp')) =>
             /\ resp'.status = 200
             /\ resp'.body.id \notin Ids(topics)
             /\ topics \subseteq topics'
             /\ \E row \in topics' \ topics :
                    /\ topics' = topics \cup {row}
                    /\ row.id = resp'.body.id
                    /\ row.user_id = Val(resp'.data.user_id)
                    /\ row.title = Val(resp'.data.topic_title)
                    /\ bg' \ bg = {Task(row)}
       /\ \A r1, r2 \in topics' : r1.id = r2.id => r1 = r2]_vars

C30_Witness ==
    \E r1, r2 \in topics :
        /\ r1.id # r2.id
        /\ r1.user_id = r2.user_id /\ r1.title = r2.title
        /\ taskLog[r1.key] = "updated" /\ taskLog[r2.key] = "updated"

\* C31: the explanation stored on a topic row was written by the generation
\* task scheduled by that row's add_topic, and no generation task writes a row
\* of another topic than its own, whatever the interleaving of add_topic,
\* delete and task steps.
C31_NoCrossWrite ==
    /\ \A r \in topics : r.explanation # None => taskLog[r.key] = "updated"
    /\ \A k \in Keys : taskLog[k] # "updated other"

Waiting == loop.handler = "random_topic"

\* C32: while a /bot/random_topic request is in its wait for the picked topic,
\* a generation task scheduled for that topic can run.
C32_TaskRunsDuringWait ==
    \A t \in bg :
        (Waiting /\ t.key = loop.topic.key) =>
            ENABLED (generate_and_save_explanation(t) /\ UNCHANGED <<bot, front>>)

OwnedBy(rows, u) == {r \in rows : r.user_id = u}
FlowDeletes == bot.pc = "delete" /\ bot'.pc = "idle"

\* C33: per-user isolation: list_topics(u) is exactly the stored topics of
\* user u, the pick for u selects topics of u only, a /bot/random_topic answer
\* carries a topic of the user asked for, and the delete that ends the consume
\* flow of user u removes no topic of another user, whatever other requests
\* come in between.
C33_PerUserIsolation ==
    [][/\ \A u \in UserIds :
             /\ {list_topics(topics, u)[i] : i \in DOMAIN list_topics(topics, u)}
                   = {to_dict(r) : r \in OwnedBy(topics, u)}
             /\ RandomPicks(topics, u) \subseteq OwnedBy(topics, u)
       /\ (resp' # resp /\ Consume(resp')) => resp'.body.user_id = Val(resp'.data.user_id)
       /\ FlowDeletes => \A r \in topics \ topics' : r.user_id = bot.user_id]_vars

Other(mode) == IF mode = "long" THEN "short" ELSE "long"
RECURSIVE Flipped(_, _)
Flipped(mode, n) == IF n = 0 THEN mode ELSE Flipped(Other(mode), n - 1)

\* C34: no toggle is lost: whatever the order in which change_mode requests
\* arrive, after n of them have completed for a user the stored mode of that
\* user is the initial mode ("long") flipped n times.
C34_NoToggleLost ==
    \A u \in UserIds : get_mode(users, u) = Flipped("long", toggles[u])

C34_Witness ==
    /\ toggles[1] = 3 /\ users[1] = "short"
    /\ toggles[2] = 2 /\ users[2] = "long"
    /\ loop = Idle

Pressed == front'.pressed # front.pressed

\* C35: a press of a related-topic button either adds exactly one topic, with
\* the title rendered on that button, or adds no topic; also after
\* cleanup_topic_maps has reset the maps and the counter and new buttons were
\* rendered.
C35_ButtonAddsItsTitle ==
    [][Pressed =>
          \/ topics' = topics
          \/ \E row \in topics' \ topics :
                /\ topics' = topics \cup {row}
                /\ row.title = front'.pressed.button.text]_vars

\* C36: a topic added by a press of a related-topic button has as
\* parent_topic_title the title of the consumed topic whose message carried
\* the button, whatever other messages suggested the same related title.
C36_ButtonParentIsItsTopic ==
    [][Pressed =>
          \A row \in topics' \ topics :
              row.parent_topic_title = Some(front'.pressed.button.parent)]_vars

FlowFailed ==
    /\ bot' # bot /\ bot.pc # "delete" /\ bot'.pc = "idle"
    /\ bot'.message \in {"BOT_CONNECTION_ERROR", "BOT_TOPIC_ERROR"}

Parsed == resp.endpoint = "parse_topics_from_text" /\ resp.body.kind = "parsed"

\* The line without its leading run of marker characters
Unmarked(line) ==
    LET m == CHOOSE k \in 0..Len(line) :
                 /\ \A i \in 1..k : line[i] \in MarkerChars
                 /\ k < Len(line) => line[k + 1] \notin MarkerChars
    IN SubSeq(line, m + 1, Len(line))

\* The line without one trailing punctuation character
Unpunctuated(line) ==
    IF Len(line) > 0 /\ line[Len(line)] \in TrailingPunctuation
    THEN [i \in 1..(Len(line) - 1) |-> line[i]]
    ELSE line

\* The line between its first and its last character that is not whitespace
Trimmed(line) ==
    LET inked == {i \in DOMAIN line : line[i] \notin Whitespace}
    IN IF inked = {}
       THEN <<>>
       ELSE SubSeq(line, CHOOSE i \in inked : \A j \in inked : i <= j,
                         CHOOSE i \in inked : \A j \in inked : i >= j)

NonEmpty(entry) == entry # <<>>
LinesOf(text) == Split(text)
EntriesAsStated(text) ==
    SelectSeq([i \in DOMAIN LinesOf(text) |-> Unpunctuated(Unmarked(LinesOf(text)[i]))],
              NonEmpty)
EntriesTrimmed(text) ==
    SelectSeq([i \in DOMAIN LinesOf(text) |->
                   Unpunctuated(Unmarked(Trimmed(LinesOf(text)[i])))],
              NonEmpty)

\* C38 as stated: parse_topics_from_text returns, in order, one entry per
\* input line that is non-empty after removing its leading enumeration marker
\* and one trailing punctuation character; no entry is empty, and every entry
\* is its line with only that marker and that punctuation removed.
C38_ParseAsStated ==
    Parsed =>
        /\ resp.body.parsed = EntriesAsStated(resp.body.text)
        /\ \A i \in DOMAIN resp.body.parsed : resp.body.parsed[i] # <<>>

\* C38, amended: parse_topics_from_text returns, in order, one entry per input
\* line that is non-empty after trimming its surrounding whitespace and
\* removing its leading enumeration marker and one trailing punctuation
\* character; no entry is empty, and every entry is its trimmed line with only
\* that marker and that punctuation removed.
C38_ParseTrimmedLines ==
    Parsed =>
        /\ resp.body.parsed = EntriesTrimmed(resp.body.text)
        /\ \A i \in DOMAIN resp.body.parsed : resp.body.parsed[i] # <<>>

C38_Witness ==
    /\ Parsed
    /\ resp.body.text = <<"1", ".", "a", "\n", ",">>
    /\ resp.body.parsed = << <<"a">> >>
====
